---------------------------- MODULE Spec2Model ----------------------------
(***************************************************************************)
(* Ghost -> Discord role sync worker.                                      *)
(*                                                                         *)
(* The worker keeps a bidirectional mapping  email <-> discord user id  in *)
(* a key-value namespace (GHOST_DISCORD_MAPPING) and drives Discord roles  *)
(* from Ghost membership webhooks, Discord slash commands (/link, /unlink) *)
(* and an administrative /link API.                                        *)
(*                                                                         *)
(* Strings are sequences of tokens (one token per character for emails),   *)
(* so that toLowerCase, the email regular expression and the template      *)
(* `discord:${userId}` are computed rather than assumed.  Every handler is *)
(* cut at its awaited store operations and collaborator calls.             *)
(***************************************************************************)
EXTENDS Integers, Sequences, FiniteSets, TLC

\* ------------------------------------------------------------------ bounds

\* Number of Discord accounts that send interactions / appear in admin bodies.
NumUsers == 2

\* Number of request slots that exist; the sequential specifications use slot 1,
\* the concurrent ones two racing slots and one more.
NumProcs == 3

Procs == 1..NumProcs

\* ------------------------------------------------------------ JS values

\* What KVNamespace.get resolves to for a missing key.
Null == <<"null">>

\* A missing property / argument; `${undefined}` renders as this token.
Undefined == <<"undefined">>

\* JavaScript truthiness of a string-or-absent value (!x is ~Truthy(x)).
Truthy(v) == v /= Null /\ v /= Undefined /\ v /= <<>>

\* The status of a member record that carries no status field (undefined).
NoStatus == "undefined"

Statuses == {"free", "paid", "comped"}

\* ------------------------------------------------------------ utils.ts

LowerAlpha == {"a", "b", "x"}
UpperAlpha == {"A", "B", "X"}
Digit == {"1", "2", "3", "4"}
AlphaNum == LowerAlpha \cup UpperAlpha \cup Digit

\* String.prototype.toLowerCase on one character.
ToLowerChar(c) ==
    CASE c = "A" -> "a"
      [] c = "B" -> "b"
      [] c = "X" -> "x"
      [] OTHER -> c

\* Mutant of ToLowerCase: the string is used as it arrived.
ToLowerCaseIdentity(s) == s

\* String.prototype.toLowerCase.
ToLowerCase(s) == [i \in 1..Len(s) |-> ToLowerChar(s[i])]

\* RFC 5321 limit enforced by isValidEmail.
MaxEmailLen == 254

\* {0,61} of EMAIL_REGEX: the middle of a domain label.
MaxLabelMiddle == 61

\* The character class of the local part of EMAIL_REGEX.
LocalChar(c) == c \in AlphaNum \cup {".", "!", "#", "+", "_", "-"}

\* One domain label: [a-zA-Z0-9](?:[a-zA-Z0-9-]{0,61}[a-zA-Z0-9])?
IsLabel(l) ==
    /\ Len(l) >= 1
    /\ l[1] \in AlphaNum
    /\ l[Len(l)] \in AlphaNum
    /\ \A i \in 1..Len(l) : l[i] \in AlphaNum \cup {"-"}
    /\ Len(l) <= MaxLabelMiddle + 2

\* label(?:\.label)* : the dots of d cut it into labels.
IsDomain(d) ==
    LET dots == {i \in 1..Len(d) : d[i] = "."}
        cuts == {0} \cup dots \cup {Len(d) + 1}
        NextCut(i) == CHOOSE j \in cuts : j > i /\ \A k \in cuts : k > i => j <= k
    IN  \A i \in cuts \ {Len(d) + 1} : IsLabel(SubSeq(d, i + 1, NextCut(i) - 1))

\* EMAIL_REGEX.test(email)
EmailRegexTest(email) ==
    \E at \in 1..Len(email) :
        /\ email[at] = "@"
        /\ at > 1
        /\ \A i \in 1..(at - 1) : LocalChar(email[i])
        /\ IsDomain(SubSeq(email, at + 1, Len(email)))

isValidEmail(email) == EmailRegexTest(email) /\ Len(email) <= MaxEmailLen

\* Mutant of isPaid: comped members are not premium.
isPaidOnly(status) == status = "paid"

isPaid(status) == status = "paid" \/ status = "comped"

\* timingSafeEqual: result stays 0 iff same length and same bytes.
timingSafeEqual(a, b) ==
    LET maxLen == IF Len(a) > Len(b) THEN Len(a) ELSE Len(b)
        At(s, i) == IF i <= Len(s) THEN s[i] ELSE ""
    IN  Len(a) = Len(b) /\ \A i \in 1..maxLen : At(a, i) = At(b, i)

\* ------------------------------------------------------- configuration

DISCORD_ROLE_MEMBER == <<"role-member">>
DISCORD_ROLE_PREMIUM == <<"role-premium">>
WEBHOOK_SECRET == <<"w", "h">>
ADMIN_SECRET == <<"a", "d">>

\* --------------------------------------------------------- KV namespace

\* The string "undefined".
UndefinedText == <<"u", "n", "d", "e", "f", "i", "n", "e", "d">>

\* `${v}` and String(v): a string is itself, undefined becomes "undefined".
TemplateText(v) == IF v = Undefined THEN UndefinedText ELSE v

\* `discord:${userId}`
DiscordKey(userId) == <<"discord:">> \o TemplateText(userId)

EmptyStore == [k \in {} |-> Null]

\* Mutant of KvGet: an entry counts only if the entry of the other direction
\* agrees with it.
KvGetPaired(store, key) ==
    IF key \notin DOMAIN store THEN Null
    ELSE IF key[1] = "discord:"
    THEN IF store[key] \in DOMAIN store /\ store[store[key]] = Tail(key)
         THEN store[key] ELSE Null
    ELSE IF DiscordKey(store[key]) \in DOMAIN store /\ store[DiscordKey(store[key])] = key
         THEN store[key] ELSE Null

\* Mutant of KvGet: a forward entry counts only if its reverse entry agrees.
KvGetForwardPaired(store, key) ==
    IF key \notin DOMAIN store THEN Null
    ELSE IF key[1] = "discord:" THEN store[key]
    ELSE IF DiscordKey(store[key]) \in DOMAIN store /\ store[DiscordKey(store[key])] = key
         THEN store[key] ELSE Null

\* KVNamespace.get
KvGet(store, key) == IF key \in DOMAIN store THEN store[key] ELSE Null

\* Mutant of KvPut: a key that is present keeps its value.
KvPutIfAbsent(store, key, value) ==
    [k \in DOMAIN store \cup {key} |-> IF k \in DOMAIN store THEN store[k] ELSE value]

\* Mutant of KvPut: nothing is stored.
KvPutNothing(store, key, value) == store

\* KVNamespace.put
KvPut(store, key, value) ==
    [k \in DOMAIN store \cup {key} |-> IF k = key THEN value ELSE store[k]]

\* Mutant of KvDelete: nothing is removed.
KvDeleteNothing(store, key) == store

\* KVNamespace.delete
KvDelete(store, key) == [k \in DOMAIN store \ {key} |-> store[k]]


\* ------------------------------------------------------------ discord.ts

\* What one fetch to the Discord API can do: answer 2xx, answer an error
\* status, or reject (the request never completes).
RoleOutcomes == {"ok", "http_error", "network_error"}

\* modifyMemberRole: null on success, an error description when !res.ok;
\* a rejected fetch is not caught and leaves the function as an exception.
modifyMemberRole(userId, roleId, method, outcome) ==
    [threw |-> outcome = "network_error",
     error |-> IF outcome = "http_error" THEN <<method, roleId>> ELSE Null]

addRole(userId, roleId, outcome) == modifyMemberRole(userId, roleId, "PUT", outcome)

removeRole(userId, roleId, outcome) == modifyMemberRole(userId, roleId, "DELETE", outcome)

\* ------------------------------------------------------------- requests

UserIds == {<<ToString(i)>> : i \in 1..NumUsers}

EmailA == <<"a", "@", "x">>
EmailB == <<"b", "@", "x">>
EmailBUpper == <<"B", "@", "X">>

\* Emails as they arrive in payloads, command options and admin bodies.
RawEmails == {EmailA, EmailB, EmailBUpper}

\* member.previous: absent, or an object given as its set of <<field, value>>.
NoPrevious == [present |-> FALSE, fields |-> {}]

PreviousRecords ==
    {NoPrevious}
    \cup {[present |-> TRUE, fields |-> f] :
            f \in {{}, {<<"name", "n">>}}
                  \cup {{<<"status", s>>} : s \in Statuses}
                  \cup {{<<"name", "n">>, <<"status", s>>} : s \in Statuses}}

\* member.previous?.status
PreviousStatus(previous) ==
    IF previous.present /\ \E f \in previous.fields : f[1] = "status"
    THEN (CHOOSE f \in previous.fields : f[1] = "status")[2]
    ELSE NoStatus

Members ==
    {[current |-> [email |-> e, status |-> s], previous |-> pr] :
        e \in RawEmails, s \in Statuses, pr \in PreviousRecords}
    \cup {[current |-> [email |-> Undefined, status |-> "free"], previous |-> NoPrevious]}

NoMember == [current |-> [email |-> Undefined, status |-> "free"], previous |-> NoPrevious]

\* POST /webhook and POST /webhook/deleted as they reach the worker.
WebhookRequests ==
    {[kind |-> k, secret |-> sec, jsonOk |-> TRUE, member |-> NoMember] :
        k \in {"webhook", "webhook_deleted"}, sec \in {Null, <<"w">>}}
    \cup {[kind |-> k, secret |-> WEBHOOK_SECRET, jsonOk |-> FALSE, member |-> NoMember] :
            k \in {"webhook", "webhook_deleted"}}
    \cup {[kind |-> "webhook", secret |-> WEBHOOK_SECRET, jsonOk |-> TRUE, member |-> m] :
            m \in Members}
    \cup {[kind |-> "webhook_deleted", secret |-> WEBHOOK_SECRET, jsonOk |-> TRUE, member |-> m] :
            m \in {x \in Members : x.previous = NoPrevious}}

\* An option value that is not an email address.
InvalidEmail == <<"b", "x">>

\* POST /discord as it reaches the worker: the signature check's verdict, the
\* interaction type, the command, the invoking member and the first option.
Interaction(type, name, userId, option) ==
    [kind |-> "discord", signatureOk |-> TRUE, type |-> type, name |-> name,
     userId |-> userId, option |-> option]

InteractionUserIds == UserIds

LinkInteractions ==
    {Interaction(2, "link", u, o) :
        u \in InteractionUserIds, o \in RawEmails \cup {InvalidEmail, Undefined, <<>>}}

UnlinkInteractions == {Interaction(2, "unlink", u, Undefined) : u \in InteractionUserIds}

\* Commands whose interaction carries no member (sent outside a guild), so
\* that interaction.member?.user?.id is undefined.
NoMemberInteractions ==
    {Interaction(2, "link", Undefined, EmailA),
     Interaction(2, "unlink", Undefined, Undefined)}

InteractionRequests ==
    {[Interaction(1, "", Undefined, Undefined) EXCEPT !.signatureOk = FALSE],
     Interaction(1, "", Undefined, Undefined),
     Interaction(3, "", Undefined, Undefined),
     Interaction(2, "other", Undefined, Undefined)}
    \cup LinkInteractions \cup UnlinkInteractions

\* What the Ghost Admin API can do for one lookup: the fetch rejects, answers
\* an error status, or answers 200 with the members matching the filter.
GhostOutcomes ==
    {[fetch |-> "network_error", members |-> <<>>],
     [fetch |-> "http_error", members |-> <<>>],
     [fetch |-> "ok", members |-> <<>>]}
    \cup {[fetch |-> "ok", members |-> <<[status |-> s]>>] : s \in Statuses}

Bearer == <<"B", "e", "a", "r", "e", "r", " ">>

\* Authorization headers: none, another scheme, a wrong token, the right one.
AuthHeaders == {Null, <<"B", "a", "s", "i", "c", " ">> \o ADMIN_SECRET,
                Bearer \o <<"a">>, Bearer \o ADMIN_SECRET}

AdminRequest(kind, auth, jsonOk, email, userId) ==
    [kind |-> kind, auth |-> auth, jsonOk |-> jsonOk, email |-> email, userId |-> userId]

AdminKinds == {"admin_post", "admin_delete", "admin_get"}

AdminRequests ==
    {AdminRequest(k, a, TRUE, Undefined, Undefined) :
        k \in AdminKinds, a \in AuthHeaders \ {Bearer \o ADMIN_SECRET}}
    \cup {AdminRequest(k, Bearer \o ADMIN_SECRET, FALSE, Undefined, Undefined) :
            k \in {"admin_post", "admin_delete"}}
    \cup {AdminRequest("admin_post", Bearer \o ADMIN_SECRET, TRUE, e, u) :
            e \in RawEmails, u \in UserIds}
    \cup {AdminRequest("admin_post", Bearer \o ADMIN_SECRET, TRUE, InvalidEmail, u) :
            u \in UserIds}
    \cup {AdminRequest("admin_post", Bearer \o ADMIN_SECRET, TRUE, Undefined, u) :
            u \in UserIds}
    \cup {AdminRequest("admin_post", Bearer \o ADMIN_SECRET, TRUE, e, Undefined) :
            e \in RawEmails}
    \cup {AdminRequest(k, Bearer \o ADMIN_SECRET, TRUE, e, Undefined) :
            k \in {"admin_delete", "admin_get"}, e \in RawEmails \cup {InvalidEmail}}
    \cup {AdminRequest("admin_delete", Bearer \o ADMIN_SECRET, TRUE, Undefined, Undefined)}

NoRequest == [kind |-> "none"]

NoResponse == [status |-> 0, kind |-> "none"]

\* The locals of the handler in progress.
NoLocals == [email |-> Null, userId |-> Null, memberStatus |-> NoStatus, errors |-> <<>>, step |-> 0]

\* --------------------------------------------------------------- state

VARIABLES
    kv,        \* GHOST_DISCORD_MAPPING: key -> value, for the keys present
    pc,        \* per slot: the await the handler stands at, "idle" or "done"
    req,       \* per slot: the request being handled
    loc,       \* per slot: the handler's local variables
    log,       \* per slot: store operations and collaborator calls issued so far
    resp,      \* per slot: the response returned (or the uncaught exception)
    snap,      \* per slot: the store as it was when the request arrived
    uncaught   \* some request so far ended in an uncaught exception

vars == <<kv, pc, req, loc, log, resp, snap, uncaught>>

Init ==
    /\ kv = EmptyStore
    /\ pc = [p \in Procs |-> "idle"]
    /\ req = [p \in Procs |-> NoRequest]
    /\ loc = [p \in Procs |-> NoLocals]
    /\ log = [p \in Procs |-> <<>>]
    /\ resp = [p \in Procs |-> NoResponse]
    /\ snap = [p \in Procs |-> EmptyStore]
    /\ uncaught = FALSE

Entry(op, key, val, out) == [op |-> op, key |-> key, val |-> val, out |-> out]

\* A request arrives at a free slot.
Receive(p, r) ==
    /\ pc[p] = "idle"
    /\ req' = [req EXCEPT ![p] = r]
    /\ loc' = [loc EXCEPT ![p] = NoLocals]
    /\ log' = [log EXCEPT ![p] = <<>>]
    /\ resp' = [resp EXCEPT ![p] = NoResponse]
    /\ snap' = [snap EXCEPT ![p] = kv]
    /\ UNCHANGED <<kv, uncaught>>

\* The invocation is over: nothing of it is kept but the store.
Finish(p) ==
    /\ pc[p] = "done"
    /\ pc' = [pc EXCEPT ![p] = "idle"]
    /\ req' = [req EXCEPT ![p] = NoRequest]
    /\ loc' = [loc EXCEPT ![p] = NoLocals]
    /\ log' = [log EXCEPT ![p] = <<>>]
    /\ resp' = [resp EXCEPT ![p] = NoResponse]
    /\ snap' = [snap EXCEPT ![p] = EmptyStore]
    /\ UNCHANGED <<kv, uncaught>>

\* The handler returns a Response.
Respond(p, status, kind) ==
    /\ pc' = [pc EXCEPT ![p] = "done"]
    /\ resp' = [resp EXCEPT ![p] = [status |-> status, kind |-> kind]]
    /\ UNCHANGED uncaught

\* The handler's promise rejects: no Response is built, the runtime answers 500.
Throw(p) ==
    /\ pc' = [pc EXCEPT ![p] = "done"]
    /\ resp' = [resp EXCEPT ![p] = [status |-> 500, kind |-> "exception"]]
    /\ uncaught' = TRUE

\* ------------------------------------------------------------- index.ts

ReceiveWebhook(p) ==
    \E r \in WebhookRequests :
        /\ Receive(p, r)
        /\ pc' = [pc EXCEPT ![p] = "parseWebhookRequest"]

\* parseWebhookRequest up to the mapping lookup: the error Response, or "lookup".
WebhookRejection(r) ==
    IF ~Truthy(r.secret) \/ ~timingSafeEqual(r.secret, WEBHOOK_SECRET)
    THEN [status |-> 401, kind |-> "unauthorized"]
    ELSE IF ~r.jsonOk
    THEN [status |-> 400, kind |-> "invalid_json"]
    ELSE IF ~Truthy(r.member.current.email)
    THEN [status |-> 400, kind |-> "missing_email"]
    ELSE NoResponse

\* The key parseWebhookRequest reads.
WebhookEmail(r) == ToLowerCase(r.member.current.email)

\* Mutant of NoMapping: the missing mapping is not noticed.
NoMappingIgnored(discordUserId) == FALSE

\* if (!discordUserId): the email has no mapping.
NoMapping(discordUserId) == ~Truthy(discordUserId)

\* parseWebhookRequest: authenticate, parse, resolve the Discord user.
ParseWebhookRequest(p) ==
    /\ pc[p] = "parseWebhookRequest"
    /\ LET r == req[p]
           rej == WebhookRejection(r)
       IN  IF rej /= NoResponse
           THEN /\ Respond(p, rej.status, rej.kind)
                /\ UNCHANGED <<kv, req, loc, log, snap>>
           ELSE LET email == WebhookEmail(r)
                    discordUserId == KvGet(kv, email)
                IN  /\ log' = [log EXCEPT ![p] = Append(@, Entry("get", email, discordUserId, "ok"))]
                    /\ IF NoMapping(discordUserId)
                       THEN /\ Respond(p, 200, "skipped_no_mapping")
                            /\ UNCHANGED <<kv, req, loc, snap>>
                       ELSE /\ loc' = [loc EXCEPT ![p] = [@ EXCEPT !.email = email,
                                                                    !.userId = discordUserId,
                                                                    !.step = 1]]
                            /\ pc' = [pc EXCEPT ![p] = r.kind]
                            /\ UNCHANGED <<kv, req, resp, snap, uncaught>>

Call(method, role) == [method |-> method, role |-> role]

\* The name under which a role call is logged: addRole is PUT, removeRole DELETE.
RoleOp(method) == IF method = "PUT" THEN "addRole" ELSE "removeRole"

\* Mutant of hasPrevious: an empty previous object counts as a previous record.
hasPreviousPresent(member) == member.previous.present

\* member.previous && Object.keys(member.previous).length > 0
hasPrevious(member) ==
    member.previous.present /\ Cardinality(member.previous.fields) > 0

\* handleWebhook: the role calls its branches make for a payload, in order.
HandleWebhookCalls(member) ==
    LET previousStatus == PreviousStatus(member.previous)
        currentStatus == member.current.status
    IN  IF ~hasPrevious(member)
        THEN <<Call("PUT", DISCORD_ROLE_MEMBER)>>
             \o (IF isPaid(currentStatus) THEN <<Call("PUT", DISCORD_ROLE_PREMIUM)>> ELSE <<>>)
        ELSE IF previousStatus /= NoStatus /\ previousStatus /= currentStatus
        THEN IF ~isPaid(previousStatus) /\ isPaid(currentStatus)
             THEN <<Call("PUT", DISCORD_ROLE_PREMIUM)>>
             ELSE IF isPaid(previousStatus) /\ ~isPaid(currentStatus)
             THEN <<Call("DELETE", DISCORD_ROLE_PREMIUM)>>
             ELSE <<>>
        ELSE <<>>

\* Mutant of HandleWebhookDeletedCalls: the first removal is attempted twice.
HandleWebhookDeletedCallsRetried(member) ==
    <<Call("DELETE", DISCORD_ROLE_MEMBER), Call("DELETE", DISCORD_ROLE_MEMBER),
      Call("DELETE", DISCORD_ROLE_PREMIUM)>>

\* handleWebhookDeleted: both roles are removed, whatever the payload says.
HandleWebhookDeletedCalls(member) ==
    <<Call("DELETE", DISCORD_ROLE_MEMBER), Call("DELETE", DISCORD_ROLE_PREMIUM)>>

\* Mutant of WebhookStore: the handlers remove the pair they resolved.
WebhookStoreCleanup(store, email, discordUserId) ==
    KvDelete(KvDelete(store, email), DiscordKey(discordUserId))

\* The store after a step of handleWebhook or handleWebhookDeleted: the
\* handlers call addRole and removeRole only, never put or delete.
WebhookStore(store, email, discordUserId) == store

\* One awaited role call of a webhook handler; its result is not looked at.
\* After the last call the handler returns json({ ok: true }).
WebhookStep(p, calls) ==
    IF loc[p].step > Len(calls)
    THEN /\ Respond(p, 200, "ok")
         /\ UNCHANGED <<kv, req, loc, log, snap>>
    ELSE \E outcome \in RoleOutcomes :
            LET c == calls[loc[p].step]
                res == modifyMemberRole(loc[p].userId, c.role, c.method, outcome)
            IN  /\ log' = [log EXCEPT ![p] = Append(@, Entry(RoleOp(c.method), loc[p].userId, c.role, outcome))]
                /\ loc' = [loc EXCEPT ![p] = [@ EXCEPT !.step = @ + 1]]
                /\ IF res.threw
                   THEN Throw(p)
                   ELSE IF loc[p].step = Len(calls)
                   THEN Respond(p, 200, "ok")
                   ELSE UNCHANGED <<pc, resp, uncaught>>
                /\ kv' = WebhookStore(kv, loc[p].email, loc[p].userId)
                /\ UNCHANGED <<req, snap>>

HandleWebhook(p) ==
    /\ pc[p] = "webhook"
    /\ WebhookStep(p, HandleWebhookCalls(req[p].member))

HandleWebhookDeleted(p) ==
    /\ pc[p] = "webhook_deleted"
    /\ WebhookStep(p, HandleWebhookDeletedCalls(req[p].member))

\* ------------------------------------------------------------- ghost.ts

\* Mutant of getGhostMember: res.ok is not looked at.
getGhostMemberNoOkCheck(outcome) ==
    IF outcome.fetch = "network_error"
    THEN [status |-> "error", memberStatus |-> NoStatus]
    ELSE IF Len(outcome.members) > 0
    THEN [status |-> "found", memberStatus |-> outcome.members[1].status]
    ELSE [status |-> "not_found", memberStatus |-> NoStatus]

\* getGhostMember: "found" with the first member, "not_found", or "error".
getGhostMember(outcome) ==
    IF outcome.fetch = "network_error"
    THEN [status |-> "error", memberStatus |-> NoStatus]
    ELSE IF outcome.fetch /= "ok"
    THEN [status |-> "error", memberStatus |-> NoStatus]
    ELSE IF Len(outcome.members) > 0
    THEN [status |-> "found", memberStatus |-> outcome.members[1].status]
    ELSE [status |-> "not_found", memberStatus |-> NoStatus]

\* What the Ghost Admin API did, as the log records it.
GhostReport(outcome) ==
    IF outcome.fetch /= "ok" THEN outcome.fetch
    ELSE IF Len(outcome.members) > 0 THEN "member" ELSE "empty"

ReceiveInteraction(p) ==
    \E r \in InteractionRequests :
        /\ Receive(p, r)
        /\ pc' = [pc EXCEPT ![p] = "handleDiscordInteraction"]

ReceiveNoMemberInteraction(p) ==
    \E r \in NoMemberInteractions :
        /\ Receive(p, r)
        /\ pc' = [pc EXCEPT ![p] = "handleDiscordInteraction"]

\* handleDiscordInteraction: verify the signature, answer PING, dispatch commands.
HandleDiscordInteraction(p) ==
    /\ pc[p] = "handleDiscordInteraction"
    /\ LET r == req[p]
       IN  IF ~r.signatureOk
           THEN Respond(p, 401, "invalid_signature")
           ELSE IF r.type = 1
           THEN Respond(p, 200, "pong")
           ELSE IF r.type = 2
           THEN IF r.name = "link"
                THEN pc' = [pc EXCEPT ![p] = "link_forward"] /\ UNCHANGED <<resp, uncaught>>
                ELSE IF r.name = "unlink"
                THEN pc' = [pc EXCEPT ![p] = "unlink_reverse"] /\ UNCHANGED <<resp, uncaught>>
                ELSE Respond(p, 200, "unknown_command")
           ELSE Respond(p, 400, "unknown_interaction_type")
    /\ UNCHANGED <<kv, req, loc, log, snap>>

\* interaction.data.options?.[0]?.value?.toLowerCase()
LinkEmail(option) == IF option = Undefined THEN Undefined ELSE ToLowerCase(option)

\* Mutant of LinkRejection: the email argument is not validated.
LinkRejectionOff(email) == NoResponse

\* handleLinkCommand, the checks before any store access.
LinkRejection(email) ==
    IF ~Truthy(email)
    THEN [status |-> 200, kind |-> "provide_email"]
    ELSE IF ~isValidEmail(email)
    THEN [status |-> 200, kind |-> "invalid_email"]
    ELSE NoResponse

\* Mutant of LinkForwardConflict: the forward check is left out.
LinkForwardConflictOff(existingUserId, userId) == FALSE

\* existingUserId && existingUserId !== userId
LinkForwardConflict(existingUserId, userId) ==
    Truthy(existingUserId) /\ existingUserId /= userId

\* Mutant of LinkReverseConflict: the reverse check is left out.
LinkReverseConflictOff(existingEmail, email) == FALSE

\* existingEmail && existingEmail !== email
LinkReverseConflict(existingEmail, email) ==
    Truthy(existingEmail) /\ existingEmail /= email

\* handleLinkCommand up to the forward read: validation, then the check that the
\* email is not linked to another account.
LinkReadForward(p) ==
    /\ pc[p] = "link_forward"
    /\ LET email == LinkEmail(req[p].option)
           rej == LinkRejection(email)
       IN  IF rej /= NoResponse
           THEN /\ Respond(p, rej.status, rej.kind)
                /\ UNCHANGED <<loc, log>>
           ELSE LET existingUserId == KvGet(kv, email)
                IN  /\ log' = [log EXCEPT ![p] = Append(@, Entry("get", email, existingUserId, "ok"))]
                    /\ loc' = [loc EXCEPT ![p] = [@ EXCEPT !.email = email, !.userId = req[p].userId]]
                    /\ IF LinkForwardConflict(existingUserId, req[p].userId)
                       THEN Respond(p, 200, "already_linked_elsewhere")
                       ELSE pc' = [pc EXCEPT ![p] = "link_reverse"] /\ UNCHANGED <<resp, uncaught>>
    /\ UNCHANGED <<kv, req, snap>>

\* handleLinkCommand: the check that the account is not linked to another email.
LinkReadReverse(p) ==
    /\ pc[p] = "link_reverse"
    /\ LET key == DiscordKey(loc[p].userId)
           existingEmail == KvGet(kv, key)
       IN  /\ log' = [log EXCEPT ![p] = Append(@, Entry("get", key, existingEmail, "ok"))]
           /\ IF LinkReverseConflict(existingEmail, loc[p].email)
              THEN Respond(p, 200, "account_already_linked")
              ELSE pc' = [pc EXCEPT ![p] = "link_lookup"] /\ UNCHANGED <<resp, uncaught>>
    /\ UNCHANGED <<kv, req, loc, snap>>

\* handleLinkCommand: the membership check against Ghost.
LinkLookup(p) ==
    /\ pc[p] = "link_lookup"
    /\ \E outcome \in GhostOutcomes :
        LET ghostResult == getGhostMember(outcome)
        IN  /\ log' = [log EXCEPT ![p] =
                         Append(@, Entry("getGhostMember", loc[p].email, <<>>, GhostReport(outcome)))]
            /\ loc' = [loc EXCEPT ![p] = [@ EXCEPT !.memberStatus = ghostResult.memberStatus]]
            /\ IF ghostResult.status = "error"
               THEN Respond(p, 200, "directory_error")
               ELSE IF ghostResult.status = "not_found"
               THEN Respond(p, 200, "not_a_member")
               ELSE pc' = [pc EXCEPT ![p] = "link_put_forward"] /\ UNCHANGED <<resp, uncaught>>
    /\ UNCHANGED <<kv, req, snap>>

\* What KVNamespace.put does with a value: a string is stored; for a value
\* that is not a string the runtime either converts it to one or rejects the
\* call with a TypeError.
PutOutcomes(value) == IF value = Undefined THEN {"ok", "type_error"} ELSE {"ok"}

\* handleLinkCommand: put(email, userId)
LinkPutForward(p) ==
    /\ pc[p] = "link_put_forward"
    /\ \E outcome \in PutOutcomes(loc[p].userId) :
        /\ log' = [log EXCEPT ![p] =
                     Append(@, Entry("put", loc[p].email, TemplateText(loc[p].userId), outcome))]
        /\ IF outcome = "ok"
           THEN /\ kv' = KvPut(kv, loc[p].email, TemplateText(loc[p].userId))
                /\ pc' = [pc EXCEPT ![p] = "link_put_reverse"]
                /\ UNCHANGED <<resp, uncaught>>
           ELSE /\ Throw(p)
                /\ UNCHANGED kv
    /\ UNCHANGED <<req, loc, snap>>

\* handleLinkCommand: put(`discord:${userId}`, email)
LinkPutReverse(p) ==
    /\ pc[p] = "link_put_reverse"
    /\ kv' = KvPut(kv, DiscordKey(loc[p].userId), loc[p].email)
    /\ log' = [log EXCEPT ![p] =
                 Append(@, Entry("put", DiscordKey(loc[p].userId), loc[p].email, "ok"))]
    /\ loc' = [loc EXCEPT ![p] = [@ EXCEPT !.step = 1]]
    /\ pc' = [pc EXCEPT ![p] = "link_roles"]
    /\ UNCHANGED <<req, resp, snap, uncaught>>

\* handleLinkCommand: the role grants for the member Ghost returned, in order.
LinkCalls(memberStatus) ==
    <<Call("PUT", DISCORD_ROLE_MEMBER)>>
    \o (IF isPaid(memberStatus) THEN <<Call("PUT", DISCORD_ROLE_PREMIUM)>> ELSE <<>>)

\* The reply that ends handleLinkCommand, from the errors collected.
LinkReply(errors) == IF Len(errors) > 0 THEN "linked_roles_failed" ELSE "linked"

\* handleLinkCommand: one awaited addRole; its error, if any, is collected, and
\* after the last one the reply is chosen.
LinkAddRoles(p) ==
    /\ pc[p] = "link_roles"
    /\ \E outcome \in RoleOutcomes :
        LET calls == LinkCalls(loc[p].memberStatus)
            c == calls[loc[p].step]
            res == addRole(loc[p].userId, c.role, outcome)
            errors == IF res.error /= Null THEN Append(loc[p].errors, res.error)
                      ELSE loc[p].errors
        IN  /\ log' = [log EXCEPT ![p] = Append(@, Entry(RoleOp(c.method), loc[p].userId, c.role, outcome))]
            /\ loc' = [loc EXCEPT ![p] = [@ EXCEPT !.step = @ + 1, !.errors = errors]]
            /\ IF res.threw
               THEN Throw(p)
               ELSE IF loc[p].step = Len(calls)
               THEN Respond(p, 200, LinkReply(errors))
               ELSE UNCHANGED <<pc, resp, uncaught>>
    /\ UNCHANGED <<kv, req, snap>>

\* Mutant of NothingLinked: the missing reverse entry is not noticed.
NothingLinkedIgnored(email) == FALSE

\* if (!email): the account has no reverse entry.
NothingLinked(email) == ~Truthy(email)

\* handleUnlinkCommand: read the reverse entry of the invoking account.
UnlinkReadReverse(p) ==
    /\ pc[p] = "unlink_reverse"
    /\ LET key == DiscordKey(req[p].userId)
           email == KvGet(kv, key)
       IN  /\ log' = [log EXCEPT ![p] = Append(@, Entry("get", key, email, "ok"))]
           /\ loc' = [loc EXCEPT ![p] = [@ EXCEPT !.email = email, !.userId = req[p].userId]]
           /\ IF NothingLinked(email)
              THEN Respond(p, 200, "nothing_to_unlink")
              ELSE pc' = [pc EXCEPT ![p] = "unlink_delete_forward"] /\ UNCHANGED <<resp, uncaught>>
    /\ UNCHANGED <<kv, req, snap>>

\* handleUnlinkCommand: delete(email)
UnlinkDeleteForward(p) ==
    /\ pc[p] = "unlink_delete_forward"
    /\ kv' = KvDelete(kv, loc[p].email)
    /\ log' = [log EXCEPT ![p] = Append(@, Entry("delete", loc[p].email, <<>>, "ok"))]
    /\ pc' = [pc EXCEPT ![p] = "unlink_delete_reverse"]
    /\ UNCHANGED <<req, loc, resp, snap, uncaught>>

\* handleUnlinkCommand: delete(`discord:${userId}`), then the reply.
UnlinkDeleteReverse(p) ==
    /\ pc[p] = "unlink_delete_reverse"
    /\ kv' = KvDelete(kv, DiscordKey(loc[p].userId))
    /\ log' = [log EXCEPT ![p] = Append(@, Entry("delete", DiscordKey(loc[p].userId), <<>>, "ok"))]
    /\ Respond(p, 200, "unlinked")
    /\ UNCHANGED <<req, loc, snap>>

\* ------------------------------------------------- the admin /link API

\* checkAdmin: a Bearer token equal to ADMIN_SECRET.
checkAdmin(auth) ==
    /\ Truthy(auth)
    /\ Len(auth) >= Len(Bearer)
    /\ SubSeq(auth, 1, Len(Bearer)) = Bearer
    /\ timingSafeEqual(SubSeq(auth, Len(Bearer) + 1, Len(auth)), ADMIN_SECRET)

ReceiveAdmin(p) ==
    \E r \in AdminRequests :
        /\ Receive(p, r)
        /\ pc' = [pc EXCEPT ![p] = r.kind]

\* handleLinkPost, the checks before any store access.
LinkPostRejection(r) ==
    IF ~checkAdmin(r.auth)
    THEN [status |-> 401, kind |-> "unauthorized"]
    ELSE IF ~r.jsonOk
    THEN [status |-> 400, kind |-> "invalid_json"]
    ELSE IF ~Truthy(r.email) \/ ~Truthy(r.userId)
    THEN [status |-> 400, kind |-> "missing_field"]
    ELSE IF ~isValidEmail(r.email)
    THEN [status |-> 400, kind |-> "invalid_email"]
    ELSE NoResponse

\* handleLinkPost up to put(email, body.discord_user_id).
LinkPostPutForward(p) ==
    /\ pc[p] = "admin_post"
    /\ LET r == req[p]
           rej == LinkPostRejection(r)
       IN  IF rej /= NoResponse
           THEN /\ Respond(p, rej.status, rej.kind)
                /\ UNCHANGED <<kv, loc, log>>
           ELSE LET email == ToLowerCase(r.email)
                IN  /\ kv' = KvPut(kv, email, r.userId)
                    /\ log' = [log EXCEPT ![p] = Append(@, Entry("put", email, r.userId, "ok"))]
                    /\ loc' = [loc EXCEPT ![p] = [@ EXCEPT !.email = email, !.userId = r.userId]]
                    /\ pc' = [pc EXCEPT ![p] = "admin_post_reverse"]
                    /\ UNCHANGED <<resp, uncaught>>
    /\ UNCHANGED <<req, snap>>

\* handleLinkPost: put(`discord:${body.discord_user_id}`, email), then the reply.
LinkPostPutReverse(p) ==
    /\ pc[p] = "admin_post_reverse"
    /\ kv' = KvPut(kv, DiscordKey(loc[p].userId), loc[p].email)
    /\ log' = [log EXCEPT ![p] =
                 Append(@, Entry("put", DiscordKey(loc[p].userId), loc[p].email, "ok"))]
    /\ Respond(p, 200, "ok")
    /\ UNCHANGED <<req, loc, snap>>

\* handleLinkDelete / handleLinkGet, the checks before any store access.
LinkDeleteRejection(r) ==
    IF ~checkAdmin(r.auth)
    THEN [status |-> 401, kind |-> "unauthorized"]
    ELSE IF ~r.jsonOk
    THEN [status |-> 400, kind |-> "invalid_json"]
    ELSE IF ~Truthy(r.email)
    THEN [status |-> 400, kind |-> "missing_field"]
    ELSE NoResponse

\* handleLinkDelete up to get(email).
LinkDeleteRead(p) ==
    /\ pc[p] = "admin_delete"
    /\ LET r == req[p]
           rej == LinkDeleteRejection(r)
       IN  IF rej /= NoResponse
           THEN /\ Respond(p, rej.status, rej.kind)
                /\ UNCHANGED <<loc, log>>
           ELSE LET email == ToLowerCase(r.email)
                    discordUserId == KvGet(kv, email)
                IN  /\ log' = [log EXCEPT ![p] = Append(@, Entry("get", email, discordUserId, "ok"))]
                    /\ loc' = [loc EXCEPT ![p] = [@ EXCEPT !.email = email, !.userId = discordUserId]]
                    /\ pc' = [pc EXCEPT ![p] = "admin_delete_forward"]
                    /\ UNCHANGED <<resp, uncaught>>
    /\ UNCHANGED <<kv, req, snap>>

\* handleLinkDelete: delete(email); without a forward value the reply follows.
LinkDeleteForward(p) ==
    /\ pc[p] = "admin_delete_forward"
    /\ kv' = KvDelete(kv, loc[p].email)
    /\ log' = [log EXCEPT ![p] = Append(@, Entry("delete", loc[p].email, <<>>, "ok"))]
    /\ IF Truthy(loc[p].userId)
       THEN pc' = [pc EXCEPT ![p] = "admin_delete_reverse"] /\ UNCHANGED <<resp, uncaught>>
       ELSE Respond(p, 200, "ok")
    /\ UNCHANGED <<req, loc, snap>>

\* handleLinkDelete: delete(`discord:${discordUserId}`), then the reply.
LinkDeleteReverse(p) ==
    /\ pc[p] = "admin_delete_reverse"
    /\ kv' = KvDelete(kv, DiscordKey(loc[p].userId))
    /\ log' = [log EXCEPT ![p] = Append(@, Entry("delete", DiscordKey(loc[p].userId), <<>>, "ok"))]
    /\ Respond(p, 200, "ok")
    /\ UNCHANGED <<req, loc, snap>>

\* handleLinkGet: the mapping of one email.
HandleLinkGet(p) ==
    /\ pc[p] = "admin_get"
    /\ LET r == req[p]
       IN  IF ~checkAdmin(r.auth)
           THEN /\ Respond(p, 401, "unauthorized")
                /\ UNCHANGED <<loc, log>>
           ELSE LET normalizedEmail == ToLowerCase(r.email)
                    discordUserId == KvGet(kv, normalizedEmail)
                IN  /\ log' = [log EXCEPT ![p] =
                                 Append(@, Entry("get", normalizedEmail, discordUserId, "ok"))]
                    /\ loc' = [loc EXCEPT ![p] = [@ EXCEPT !.email = normalizedEmail,
                                                                !.userId = discordUserId]]
                    /\ IF ~Truthy(discordUserId)
                       THEN Respond(p, 404, "not_found")
                       ELSE Respond(p, 200, "found")
    /\ UNCHANGED <<kv, req, snap>>

\* ------------------------------------------------------- specifications

\* The slot the sequential specifications run every request in.
Main == 1

WebhookNext ==
    \/ ReceiveWebhook(Main)
    \/ ParseWebhookRequest(Main)
    \/ HandleWebhook(Main)
    \/ HandleWebhookDeleted(Main)

SelfServiceNext ==
    \/ ReceiveInteraction(Main)
    \/ HandleDiscordInteraction(Main)
    \/ LinkReadForward(Main)
    \/ LinkReadReverse(Main)
    \/ LinkLookup(Main)
    \/ LinkPutForward(Main)
    \/ LinkPutReverse(Main)
    \/ LinkAddRoles(Main)
    \/ UnlinkReadReverse(Main)
    \/ UnlinkDeleteForward(Main)
    \/ UnlinkDeleteReverse(Main)

AdminNext ==
    \/ ReceiveAdmin(Main)
    \/ LinkPostPutForward(Main)
    \/ LinkPostPutReverse(Main)
    \/ LinkDeleteRead(Main)
    \/ LinkDeleteForward(Main)
    \/ LinkDeleteReverse(Main)
    \/ HandleLinkGet(Main)

\* Every request is handled to completion before the next one arrives.
Next == WebhookNext \/ SelfServiceNext \/ AdminNext \/ Finish(Main)

Spec == Init /\ [][Next]_vars

\* Only the slash commands and the admin API reach the worker.
SpecLinking == Init /\ [][SelfServiceNext \/ AdminNext \/ Finish(Main)]_vars

\* Only the slash commands reach the worker.
SpecSelfService == Init /\ [][SelfServiceNext \/ Finish(Main)]_vars

\* The slash commands, those without a member included.
SpecNoMember ==
    Init /\ [][SelfServiceNext \/ ReceiveNoMemberInteraction(Main) \/ Finish(Main)]_vars

\* /link commands for one email, from every account.
LinkRaceRequests == {Interaction(2, "link", u, EmailA) : u \in UserIds}

ReceiveLinkRace(p) ==
    \E r \in LinkRaceRequests :
        /\ Receive(p, r)
        /\ pc' = [pc EXCEPT ![p] = "handleDiscordInteraction"]

\* The slots of the two calls that race.
Racers == {1, 2}

\* Invocations of the worker run concurrently, one per slot, and interleave at
\* their awaits; here two slots take /link commands for the same email.
LinkRaceNext ==
    \E p \in Racers :
        \/ ReceiveLinkRace(p)
        \/ HandleDiscordInteraction(p)
        \/ LinkReadForward(p)
        \/ LinkReadReverse(p)
        \/ LinkLookup(p)
        \/ LinkPutForward(p)
        \/ LinkPutReverse(p)
        \/ LinkAddRoles(p)
        \/ Finish(p)

SpecLinkRace == Init /\ [][LinkRaceNext]_vars

\* /link commands for either email, from every account.
LinkRetryRequests ==
    {Interaction(2, "link", u, e) : u \in UserIds, e \in {EmailA, EmailB}}

\* The slot of a call that runs while no other invocation does.
Alone == 3

\* A /link from an account that has linked before arrives while no other
\* invocation is running, and none arrives until it is over.
ReceiveLinkAlone(p) ==
    /\ p = Alone
    /\ \A q \in Racers : pc[q] = "idle"
    /\ \E r \in LinkRetryRequests :
        /\ DiscordKey(r.userId) \in DOMAIN kv
        /\ Receive(p, r)
        /\ pc' = [pc EXCEPT ![p] = "handleDiscordInteraction"]

\* A /link for the raced email arrives in a racing slot, possibly next to the
\* one in the other racing slot.
ReceiveLinkRacing(p) ==
    /\ p \in Racers
    /\ pc[Alone] = "idle"
    /\ ReceiveLinkRace(p)

\* Two slots race on /link for one email; between races a /link for either
\* email runs alone.
LinkRetryNext ==
    \E p \in Racers \cup {Alone} :
        \/ ReceiveLinkRacing(p)
        \/ ReceiveLinkAlone(p)
        \/ HandleDiscordInteraction(p)
        \/ LinkReadForward(p)
        \/ LinkReadReverse(p)
        \/ LinkLookup(p)
        \/ LinkPutForward(p)
        \/ LinkPutReverse(p)
        \/ LinkAddRoles(p)
        \/ Finish(p)

SpecLinkRetry == Init /\ [][LinkRetryNext]_vars

\* Membership events for one email: a new member, free or paid.
EventRaceEvents ==
    {[kind |-> "webhook", secret |-> WEBHOOK_SECRET, jsonOk |-> TRUE,
      member |-> [current |-> [email |-> EmailA, status |-> s], previous |-> NoPrevious]] :
        s \in {"free", "paid"}}

\* The administrative requests that create and remove that email's mapping.
EventRaceAdminRequests ==
    {AdminRequest("admin_post", Bearer \o ADMIN_SECRET, TRUE, EmailA, u) : u \in UserIds}
    \cup {AdminRequest("admin_delete", Bearer \o ADMIN_SECRET, TRUE, EmailA, Undefined)}

\* The invocations that handle the events, and those that change the mapping.
EventSlot == 1
ChangeSlot == 2

ReceiveEvent(p) ==
    \E r \in EventRaceEvents :
        /\ p = EventSlot
        /\ Receive(p, r)
        /\ pc' = [pc EXCEPT ![p] = "parseWebhookRequest"]

ReceiveUnlink(p) ==
    \E r \in UnlinkInteractions :
        /\ p = ChangeSlot
        /\ Receive(p, r)
        /\ pc' = [pc EXCEPT ![p] = "handleDiscordInteraction"]

ReceiveEventRaceAdmin(p) ==
    \E r \in EventRaceAdminRequests :
        /\ p = ChangeSlot
        /\ Receive(p, r)
        /\ pc' = [pc EXCEPT ![p] = r.kind]

\* Two invocations run concurrently: membership events for one email, and the
\* /unlink commands and administrative requests that change its mapping.
EventRaceNext ==
    \E p \in Racers :
        \/ ReceiveEvent(p)
        \/ ReceiveUnlink(p)
        \/ ReceiveEventRaceAdmin(p)
        \/ ParseWebhookRequest(p)
        \/ HandleWebhook(p)
        \/ HandleDiscordInteraction(p)
        \/ UnlinkReadReverse(p)
        \/ UnlinkDeleteForward(p)
        \/ UnlinkDeleteReverse(p)
        \/ LinkPostPutForward(p)
        \/ LinkPostPutReverse(p)
        \/ LinkDeleteRead(p)
        \/ LinkDeleteForward(p)
        \/ LinkDeleteReverse(p)
        \/ Finish(p)

SpecEventRace == Init /\ [][EventRaceNext]_vars

\* ---------------------------------------------------- reading the state

\* The emails the store is keyed by: lowercased.
Emails == {ToLowerCase(e) : e \in RawEmails}

\* forward(e) and reverse(u) of a store.
Forward(store, e) == KvGet(store, e)
Reverse(store, u) == KvGet(store, DiscordKey(u))

IsReverseKey(k) == Len(k) > 0 /\ k[1] = "discord:"
ForwardKeys(store) == {k \in DOMAIN store : ~IsReverseKey(k)}
ReverseKeys(store) == {k \in DOMAIN store : IsReverseKey(k)}

\* The entries of a log with one of the given operations.
Ops(l, ops) == SelectSeq(l, LAMBDA e : e.op \in ops)
Writes(l) == Ops(l, {"put", "delete"})
Lookups(l) == Ops(l, {"getGhostMember"})
RoleCalls(l) == Ops(l, {"addRole", "removeRole"})

\* A role call as <<operation, role, account>>.
Issued(l) == [i \in 1..Len(RoleCalls(l)) |->
                <<RoleCalls(l)[i].op, RoleCalls(l)[i].val, RoleCalls(l)[i].key>>]

\* No request is in progress.
Quiescent == pc[Main] \in {"idle", "done"}

\* ---------------------------------------------------------------- C1

\* C1 (as stated; refuted under SpecLinking): after any sequence of completed
\* link, unlink, POST /link and DELETE /link requests none of which ended in an
\* exception, forward(e) = u if and only if reverse(u) = e, for every email e
\* and account u.
C1_ForwardIffReverse ==
    (Quiescent /\ ~uncaught) =>
        \A e \in Emails, u \in UserIds :
            (Forward(kv, e) = u) <=> (Reverse(kv, u) = e)

\* ---------------------------------------------------------------- C2

\* C2: with slash commands only, no account is the value of two forward
\* entries and no email is the value of two reverse entries.
C2_OneToOne ==
    /\ \A k1, k2 \in ForwardKeys(kv) : kv[k1] = kv[k2] => k1 = k2
    /\ \A k1, k2 \in ReverseKeys(kv) : kv[k1] = kv[k2] => k1 = k2

\* An account linked to a@x asked for b@x as well and was turned down by the
\* reverse check.
C2_Witness ==
    /\ Forward(kv, EmailA) \in UserIds
    /\ Reverse(kv, Forward(kv, EmailA)) = EmailA
    /\ req[Main].kind = "discord"
    /\ req[Main].userId = Forward(kv, EmailA)
    /\ ToLowerCase(req[Main].option) = EmailB
    /\ pc[Main] = "done"
    /\ resp[Main].kind = "account_already_linked"

\* ---------------------------------------------------------------- C3

\* An authenticated webhook request with a parsable body and an email.
WellFormedEvent(r) ==
    /\ r.kind \in {"webhook", "webhook_deleted"}
    /\ r.secret = WEBHOOK_SECRET
    /\ r.jsonOk
    /\ r.member.current.email \in RawEmails

\* C3: an authenticated, well-formed membership event whose lowercased email
\* has no forward entry issues no role call, writes nothing to the store and
\* is answered 200 with skipped / no_mapping.
C3_NoMappingSkips ==
    (/\ pc[Main] /= "idle"
     /\ WellFormedEvent(req[Main])
     /\ Forward(snap[Main], ToLowerCase(req[Main].member.current.email)) = Null)
    => /\ RoleCalls(log[Main]) = <<>>
       /\ Writes(log[Main]) = <<>>
       /\ kv = snap[Main]
       /\ pc[Main] \in {"parseWebhookRequest", "done"}
       /\ pc[Main] = "done" =>
            resp[Main] = [status |-> 200, kind |-> "skipped_no_mapping"]

\* An event for B@X is skipped while a@x is mapped.
C3_Witness ==
    /\ pc[Main] = "done"
    /\ req[Main].kind = "webhook"
    /\ req[Main].member.current.email = EmailBUpper
    /\ Forward(kv, EmailA) /= Null
    /\ Forward(kv, EmailB) = Null
    /\ resp[Main].kind = "skipped_no_mapping"

\* ---------------------------------------------------------------- C4

Premium(status) == status \in {"paid", "comped"}

Grant(role) == <<"addRole", role>>
Revoke(role) == <<"removeRole", role>>

\* The row of an added event.
AddedRow(current) ==
    <<Grant(DISCORD_ROLE_MEMBER)>>
    \o (IF Premium(current) THEN <<Grant(DISCORD_ROLE_PREMIUM)>> ELSE <<>>)

\* The row of an updated event whose previous record carries a status.
TransitionRow(previous, current) ==
    IF Premium(previous) = Premium(current) THEN <<>>
    ELSE IF Premium(current) THEN <<Grant(DISCORD_ROLE_PREMIUM)>>
    ELSE <<Revoke(DISCORD_ROLE_PREMIUM)>>

\* The decision table as the claim has it: keyed by the previous status alone.
StatedRow(member) ==
    IF PreviousStatus(member.previous) = NoStatus
    THEN AddedRow(member.current.status)
    ELSE TransitionRow(PreviousStatus(member.previous), member.current.status)

\* The decision table of the code: a previous record with fields but no status
\* is an update without a status change.
AmendedRow(member) ==
    IF ~member.previous.present \/ member.previous.fields = {}
    THEN AddedRow(member.current.status)
    ELSE IF PreviousStatus(member.previous) = NoStatus
    THEN <<>>
    ELSE TransitionRow(PreviousStatus(member.previous), member.current.status)

\* The request in slot Main is a well-formed event of the given kind whose
\* email was mapped when it arrived, and the handler has started.
MappedEvent(kind) ==
    /\ pc[Main] /= "idle"
    /\ req[Main].kind = kind
    /\ WellFormedEvent(req[Main])
    /\ Forward(snap[Main], ToLowerCase(req[Main].member.current.email)) /= Null

EventTarget == Forward(snap[Main], ToLowerCase(req[Main].member.current.email))

\* The role calls issued are exactly the row, each for the target account.
IssuedExactly(row, target) ==
    Issued(log[Main]) = [i \in 1..Len(row) |-> <<row[i][1], row[i][2], target>>]

\* The role calls are issued in the row's order for the target account; the
\* handler answers { ok: true } after the whole row, and ends in an exception
\* only at a call whose fetch rejected.
FollowsRow(row, target) ==
    LET issued == Issued(log[Main])
        calls == RoleCalls(log[Main])
    IN  /\ Len(issued) <= Len(row)
        /\ \A i \in 1..Len(issued) : issued[i] = <<row[i][1], row[i][2], target>>
        /\ \A i \in 1..(Len(calls) - 1) : calls[i].out /= "network_error"
        /\ pc[Main] = "done" =>
            \/ /\ resp[Main] = [status |-> 200, kind |-> "ok"]
               /\ Len(issued) = Len(row)
               /\ \A i \in 1..Len(calls) : calls[i].out /= "network_error"
            \/ /\ resp[Main].kind = "exception"
               /\ Len(calls) >= 1
               /\ calls[Len(calls)].out = "network_error"

\* C4 (as stated; refuted): whenever handleWebhook answers for a mapped email,
\* the role calls it issued are exactly the row chosen by (previous status or
\* absent, current status), absent meaning the added row.
C4_AsStated ==
    (MappedEvent("webhook") /\ pc[Main] = "done" /\ resp[Main].kind = "ok")
    => IssuedExactly(StatedRow(req[Main].member), EventTarget)

\* C4 (amended): for a mapped email handleWebhook issues the calls of the row
\* chosen by the previous record and the current status: no previous record
\* or one without fields: grant base, then grant premium iff paid or comped;
\* a previous record with fields but no status: nothing; same tier: nothing;
\* base to premium: grant premium; premium to base: revoke premium.  All
\* calls go to the account the forward entry resolved to, and the row is cut
\* short only by a call whose fetch rejects.
C4_DecisionTable ==
    MappedEvent("webhook") => FollowsRow(AmendedRow(req[Main].member), EventTarget)

\* A free -> comped update was answered after exactly one premium grant.
C4_Witness ==
    /\ MappedEvent("webhook")
    /\ pc[Main] = "done"
    /\ resp[Main].kind = "ok"
    /\ req[Main].member.previous.fields = {<<"status", "free">>}
    /\ req[Main].member.current.status = "comped"
    /\ Issued(log[Main]) = <<<<"addRole", DISCORD_ROLE_PREMIUM, EventTarget>>>>

\* ---------------------------------------------------------------- C5

\* An updated event: the payload carries a previous record.
UpdatedEvent == MappedEvent("webhook") /\ req[Main].member.previous.present

\* C5 (as stated; refuted): an updated event for a mapped email whose previous
\* record has no status is answered after the calls of an added event,
\* whatever else the previous record carries.
C5_AsStated ==
    (/\ UpdatedEvent
     /\ PreviousStatus(req[Main].member.previous) = NoStatus
     /\ pc[Main] = "done"
     /\ resp[Main].kind = "ok")
    => IssuedExactly(AddedRow(req[Main].member.current.status), EventTarget)

\* C5 (amended): an updated event whose previous record has no field at all is
\* handled as an added event (grant base, then grant premium iff paid or
\* comped, cut short only by a rejected fetch); one whose previous record has
\* other fields but no status issues no role call and is answered { ok: true }.
C5_UpdatedWithoutStatus ==
    (UpdatedEvent /\ PreviousStatus(req[Main].member.previous) = NoStatus)
    => IF req[Main].member.previous.fields = {}
       THEN FollowsRow(AddedRow(req[Main].member.current.status), EventTarget)
       ELSE /\ RoleCalls(log[Main]) = <<>>
            /\ pc[Main] = "done" => resp[Main] = [status |-> 200, kind |-> "ok"]

\* An update with an empty previous record and a paid member got both grants.
C5_Witness ==
    /\ UpdatedEvent
    /\ req[Main].member.previous.fields = {}
    /\ req[Main].member.current.status = "paid"
    /\ pc[Main] = "done"
    /\ resp[Main].kind = "ok"
    /\ Len(RoleCalls(log[Main])) = 2

\* ---------------------------------------------------------------- C6

\* C6 (as stated; refuted): a completed deletion event for a mapped email has
\* issued exactly the revoke of the base role and the revoke of the premium
\* role, both for the mapped account, and no grant.
C6_AsStated ==
    (MappedEvent("webhook_deleted") /\ pc[Main] = "done")
    => IssuedExactly(<<Revoke(DISCORD_ROLE_MEMBER), Revoke(DISCORD_ROLE_PREMIUM)>>,
                     EventTarget)

\* ---------------------------------------------------------------- C7

\* C7 (as stated; refuted): once the mapping lookup of an event has succeeded,
\* the request ends with the success response, whatever the role calls did.
C7_AsStated ==
    (/\ MappedEvent("webhook") \/ MappedEvent("webhook_deleted")
     /\ pc[Main] = "done")
    => resp[Main] = [status |-> 200, kind |-> "ok"]

\* ---------------------------------------------------------------- C8

\* The request in slot Main runs a handler path that makes two role calls.
TwoCallPath ==
    \/ /\ MappedEvent("webhook")
       /\ AmendedRow(req[Main].member) = AddedRow(req[Main].member.current.status)
       /\ Premium(req[Main].member.current.status)
    \/ MappedEvent("webhook_deleted")
    \/ /\ req[Main].kind = "discord"
       /\ Premium(loc[Main].memberStatus)

\* C8 (as stated; refuted): on a path with two role calls, a request that has
\* attempted the first call ends having attempted the second.
C8_AsStated ==
    (TwoCallPath /\ pc[Main] = "done" /\ Len(RoleCalls(log[Main])) >= 1)
    => Len(RoleCalls(log[Main])) = 2

\* ---------------------------------------------------------------- C9

\* A /link command with a syntactically valid email is being handled.
LinkCommand ==
    /\ pc[Main] /= "idle"
    /\ req[Main].kind = "discord"
    /\ req[Main].signatureOk
    /\ req[Main].type = 2
    /\ req[Main].name = "link"
    /\ req[Main].option \in RawEmails

LinkEmailArg == ToLowerCase(req[Main].option)

\* Step 2: the email is linked to another account.
EmailTaken ==
    /\ Forward(snap[Main], LinkEmailArg) /= Null
    /\ Forward(snap[Main], LinkEmailArg) /= req[Main].userId

\* Step 3: the account is linked to another email.
AccountTaken ==
    /\ Reverse(snap[Main], req[Main].userId) /= Null
    /\ Reverse(snap[Main], req[Main].userId) /= LinkEmailArg

\* C9: a /link whose email is linked to another account, or whose account is
\* linked to another email, never writes or deletes a store entry, never asks
\* Ghost and never calls a role; it ends with the matching rejection and the
\* store as it was.
C9_ConflictLeavesNoTrace ==
    (LinkCommand /\ (EmailTaken \/ AccountTaken))
    => /\ Writes(log[Main]) = <<>>
       /\ Lookups(log[Main]) = <<>>
       /\ RoleCalls(log[Main]) = <<>>
       /\ kv = snap[Main]
       /\ pc[Main] = "done" =>
            resp[Main] = [status |-> 200,
                          kind |-> IF EmailTaken THEN "already_linked_elsewhere"
                                   ELSE "account_already_linked"]

\* /link B@X by an account while b@x is linked to another one was rejected.
C9_Witness ==
    /\ LinkCommand
    /\ req[Main].option = EmailBUpper
    /\ EmailTaken
    /\ pc[Main] = "done"
    /\ resp[Main].kind = "already_linked_elsewhere"

\* --------------------------------------------------------------- C10

\* What Ghost did for the lookup of the /link in progress.
LookupOutcome == Lookups(log[Main])[1].out

\* C10: a /link whose lookup found no member, or failed (rejected fetch or
\* error status), ends at once with the not-a-member respectively the
\* directory-error reply, with no store write and no role call.
C10_LookupFailureLeavesNoTrace ==
    (/\ LinkCommand
     /\ Lookups(log[Main]) /= <<>>
     /\ LookupOutcome \in {"empty", "network_error", "http_error"})
    => /\ pc[Main] = "done"
       /\ resp[Main] = [status |-> 200,
                        kind |-> IF LookupOutcome = "empty" THEN "not_a_member"
                                 ELSE "directory_error"]
       /\ Writes(log[Main]) = <<>>
       /\ RoleCalls(log[Main]) = <<>>
       /\ kv = snap[Main]

\* /link for an unmapped email by an unmapped account was turned down because
\* Ghost knows no such member.
C10_Witness ==
    /\ LinkCommand
    /\ ~EmailTaken
    /\ ~AccountTaken
    /\ pc[Main] = "done"
    /\ Lookups(log[Main]) /= <<>>
    /\ LookupOutcome = "empty"
    /\ resp[Main].kind = "not_a_member"

\* --------------------------------------------------------------- C11

\* No character of s is an upper-case letter.
IsLowerCase(s) == \A i \in 1..Len(s) : s[i] \notin UpperAlpha

\* The email a request carries, as it arrived; Undefined when it carries none.
CarriedEmail(r) ==
    IF r.kind \in {"webhook", "webhook_deleted"} THEN r.member.current.email
    ELSE IF r.kind = "discord" THEN r.option
    ELSE IF r.kind \in AdminKinds THEN r.email
    ELSE Undefined

\* The store operations of a log.
StoreOps(l) == Ops(l, {"get", "put", "delete"})

\* C11: every forward key a handler reads, writes or deletes is lower-case and,
\* when the request carries an email, is that email lowercased; every email
\* written or kept as a reverse value is lower-case; and /link B@X by an
\* account while b@x is linked to another account writes nothing and ends as
\* the already-linked-elsewhere conflict.
C11_LowercasedKeys ==
    /\ \A k \in DOMAIN kv :
          IF IsReverseKey(k) THEN IsLowerCase(kv[k]) ELSE IsLowerCase(k)
    /\ \A i \in 1..Len(StoreOps(log[Main])) :
          LET en == StoreOps(log[Main])[i]
          IN  IF IsReverseKey(en.key)
              THEN en.op = "put" => IsLowerCase(en.val)
              ELSE /\ IsLowerCase(en.key)
                   /\ CarriedEmail(req[Main]) /= Undefined =>
                        /\ Len(en.key) = Len(CarriedEmail(req[Main]))
                        /\ \A j \in 1..Len(en.key) :
                              \/ en.key[j] = CarriedEmail(req[Main])[j]
                              \/ /\ CarriedEmail(req[Main])[j] \in UpperAlpha
                                 /\ <<CarriedEmail(req[Main])[j], en.key[j]>>
                                      \in {<<"A", "a">>, <<"B", "b">>, <<"X", "x">>}
    /\ (/\ LinkCommand
        /\ req[Main].option = EmailBUpper
        /\ EmailB \in DOMAIN snap[Main]
        /\ snap[Main][EmailB] /= req[Main].userId)
       => /\ Writes(log[Main]) = <<>>
          /\ kv = snap[Main]
          /\ pc[Main] = "done" => resp[Main].kind = "already_linked_elsewhere"

\* /link B@X by an account, with b@x linked to another one: the only store
\* operation was the read of the key b@x, and the command was turned down.
C11_Witness ==
    /\ LinkCommand
    /\ req[Main].option = EmailBUpper
    /\ EmailB \in DOMAIN snap[Main]
    /\ snap[Main][EmailB] /= req[Main].userId
    /\ pc[Main] = "done"
    /\ StoreOps(log[Main]) = <<Entry("get", EmailB, snap[Main][EmailB], "ok")>>
    /\ resp[Main].kind = "already_linked_elsewhere"

\* --------------------------------------------------------------- C12

\* The /link in progress, sent by an account, has passed validation, both
\* conflict checks and the directory lookup: Ghost returned a member.
LinkAccepted ==
    /\ LinkCommand
    /\ req[Main].userId \in UserIds
    /\ Lookups(log[Main]) /= <<>>
    /\ LookupOutcome = "member"

\* The writes and role calls of a log, each as <<operation, key, value>>.
Effects(l) ==
    LET w == Ops(l, {"put", "delete", "addRole", "removeRole"})
    IN  [i \in 1..Len(w) |-> <<w[i].op, w[i].key, w[i].val>>]

\* What an accepted /link of email e by account u with membership status st
\* does after the lookup: forward, reverse, grant base, grant premium iff st
\* is paid or comped.
LinkEffects(e, u, st) ==
    <<<<"put", e, u>>, <<"put", <<"discord:">> \o u, e>>,
      <<"addRole", u, DISCORD_ROLE_MEMBER>>>>
    \o (IF Premium(st) THEN <<<<"addRole", u, DISCORD_ROLE_PREMIUM>>>> ELSE <<>>)

\* C12 (as stated; refuted): a completed /link that passed validation, both
\* conflict checks and the directory lookup has put forward(email) = u, then
\* reverse(u) = email, then granted the base role, then granted the premium
\* role if and only if the member's status is paid or comped, and has done
\* nothing else to the store or the roles.
C12_AsStated ==
    (LinkAccepted /\ pc[Main] = "done")
    => Effects(log[Main])
         = LinkEffects(LinkEmailArg, req[Main].userId, loc[Main].memberStatus)

\* --------------------------------------------------------------- C13

\* Some role grant of the request in slot Main did not succeed.
GrantFailed ==
    \E i \in 1..Len(RoleCalls(log[Main])) : RoleCalls(log[Main])[i].out /= "ok"

\* C13 (as stated; refuted): a completed /link that has persisted the mapping
\* and had at least one role grant fail is answered with the linked-but-roles-
\* not-assigned reply, which is neither the success reply nor a rejection, and
\* both entries it wrote are still in the store.
C13_AsStated ==
    (LinkAccepted /\ pc[Main] = "done" /\ GrantFailed)
    => /\ resp[Main] = [status |-> 200, kind |-> "linked_roles_failed"]
       /\ Forward(kv, LinkEmailArg) = req[Main].userId
       /\ Reverse(kv, req[Main].userId) = LinkEmailArg

\* --------------------------------------------------------------- C14

\* An /unlink command is being handled.
UnlinkCommand ==
    /\ pc[Main] /= "idle"
    /\ req[Main].kind = "discord"
    /\ req[Main].signatureOk
    /\ req[Main].type = 2
    /\ req[Main].name = "unlink"

\* The reverse key of the account that sent the command in slot Main.
RequesterKey ==
    <<"discord:">> \o (IF req[Main].userId = Undefined THEN UndefinedText
                       ELSE req[Main].userId)

\* C14: /unlink by an account that had no reverse entry when the command
\* arrived writes and deletes nothing, asks Ghost nothing, calls no role, and
\* ends with the nothing-is-linked reply (status 200, not an error) and the
\* store as it was; the store being unchanged, the same command sent again
\* meets the same condition and ends the same way.
C14_UnlinkNothingIsNoOp ==
    (UnlinkCommand /\ RequesterKey \notin DOMAIN snap[Main])
    => /\ Writes(log[Main]) = <<>>
       /\ Lookups(log[Main]) = <<>>
       /\ RoleCalls(log[Main]) = <<>>
       /\ kv = snap[Main]
       /\ pc[Main] \in {"handleDiscordInteraction", "unlink_reverse", "done"}
       /\ pc[Main] = "done" =>
            resp[Main] = [status |-> 200, kind |-> "nothing_to_unlink"]

\* An account without a link sent /unlink while another account was linked.
C14_Witness ==
    /\ UnlinkCommand
    /\ RequesterKey \notin DOMAIN snap[Main]
    /\ ReverseKeys(snap[Main]) /= {}
    /\ pc[Main] = "done"
    /\ resp[Main].kind = "nothing_to_unlink"

\* --------------------------------------------------------------- C15

\* The email the requester's reverse entry held when the command arrived.
RequesterEmail == snap[Main][RequesterKey]

\* C15: /unlink by an account whose reverse entry held e when the command
\* arrived deletes the entry of key e and then the account's reverse entry,
\* and nothing else: every other entry is kept with its value, no role call
\* and no Ghost lookup is made, and the reply is the unlinked one.
C15_UnlinkDeletesThePair ==
    (UnlinkCommand /\ RequesterKey \in DOMAIN snap[Main])
    => /\ RoleCalls(log[Main]) = <<>>
       /\ Lookups(log[Main]) = <<>>
       /\ Len(Effects(log[Main])) <= 2
       /\ Len(Effects(log[Main])) >= 1 =>
            Effects(log[Main])[1] = <<"delete", RequesterEmail, <<>>>>
       /\ Len(Effects(log[Main])) = 2 =>
            Effects(log[Main])[2] = <<"delete", RequesterKey, <<>>>>
       /\ pc[Main] = "done" =>
            /\ resp[Main] = [status |-> 200, kind |-> "unlinked"]
            /\ Len(Effects(log[Main])) = 2
            /\ DOMAIN kv = DOMAIN snap[Main] \ {RequesterEmail, RequesterKey}
            /\ \A k \in DOMAIN kv : kv[k] = snap[Main][k]

\* An account was unlinked while another pair stayed in the store.
C15_Witness ==
    /\ UnlinkCommand
    /\ RequesterKey \in DOMAIN snap[Main]
    /\ RequesterEmail \in DOMAIN snap[Main]
    /\ pc[Main] = "done"
    /\ resp[Main].kind = "unlinked"
    /\ ForwardKeys(kv) /= {}
    /\ ReverseKeys(kv) /= {}

\* --------------------------------------------------------------- C16

\* An authenticated POST /link with a parsable body, a syntactically valid
\* email and a non-empty discord_user_id is being handled.
ValidLinkPost ==
    /\ pc[Main] /= "idle"
    /\ req[Main].kind = "admin_post"
    /\ req[Main].auth = Bearer \o ADMIN_SECRET
    /\ req[Main].jsonOk
    /\ req[Main].email \in RawEmails
    /\ req[Main].userId \in UserIds

\* The two puts of a link of email e and account u, in order.
PairPuts(e, u) == <<<<"put", e, u>>, <<"put", <<"discord:">> \o u, e>>>>

\* C16: an authenticated POST /link with a valid email and a non-empty id
\* puts forward(email) = id and then reverse(id) = email, whatever the store
\* held for that email or that id, answers 200 { ok: true }, and makes no
\* Ghost lookup and no role call.
C16_PostAlwaysWrites ==
    ValidLinkPost
    => LET e == ToLowerCase(req[Main].email)
           u == req[Main].userId
           done == Effects(log[Main])
       IN  /\ Lookups(log[Main]) = <<>>
           /\ RoleCalls(log[Main]) = <<>>
           /\ StoreOps(log[Main]) = Writes(log[Main])
           /\ Len(done) <= 2
           /\ \A i \in 1..Len(done) : done[i] = PairPuts(e, u)[i]
           /\ Len(done) >= 1 => (e \in DOMAIN kv /\ kv[e] = u)
           /\ pc[Main] = "done" =>
                /\ resp[Main] = [status |-> 200, kind |-> "ok"]
                /\ Len(done) = 2
                /\ <<"discord:">> \o u \in DOMAIN kv
                /\ kv[<<"discord:">> \o u] = e

\* POST /link mapped an email that was mapped to another account, to an
\* account that was mapped to another email.
C16_Witness ==
    /\ ValidLinkPost
    /\ pc[Main] = "done"
    /\ ToLowerCase(req[Main].email) \in DOMAIN snap[Main]
    /\ snap[Main][ToLowerCase(req[Main].email)] /= req[Main].userId
    /\ <<"discord:">> \o req[Main].userId \in DOMAIN snap[Main]
    /\ snap[Main][<<"discord:">> \o req[Main].userId] /= ToLowerCase(req[Main].email)
    /\ resp[Main].kind = "ok"

\* --------------------------------------------------------------- C17

\* An account id as the store holds it: the id, "undefined" for a missing one.
StoredId(u) == IF u = Undefined THEN UndefinedText ELSE u

\* The reverse key of an account, spelled out.
ReverseKeyOf(u) == <<"discord:">> \o StoredId(u)

\* Every forward entry has the reverse entry that agrees with it, and every
\* reverse entry the forward entry that agrees with it.
Consistent(store) ==
    /\ \A e \in ForwardKeys(store) :
          ReverseKeyOf(store[e]) \in DOMAIN store /\ store[ReverseKeyOf(store[e])] = e
    /\ \A rk \in ReverseKeys(store) :
          store[rk] \in DOMAIN store /\ ReverseKeyOf(store[store[rk]]) = rk

\* Forward exists, reverse missing: the forward keys whose account has no
\* reverse entry.
ForwardOnly(store) ==
    {e \in ForwardKeys(store) : ReverseKeyOf(store[e]) \notin DOMAIN store}

\* Reverse exists, forward missing: the reverse keys whose email has no
\* forward entry.
ReverseOnly(store) ==
    {rk \in ReverseKeys(store) : store[rk] \notin DOMAIN store}

\* The request in slot Main stands between the two puts of a link or of a
\* POST /link, respectively between the two deletes of an unlink or of a
\* DELETE /link.
BetweenPuts == pc[Main] \in {"link_put_reverse", "admin_post_reverse"}
BetweenDeletes == pc[Main] \in {"unlink_delete_reverse", "admin_delete_reverse"}

\* Of the writes and deletes of a request the first is on a forward key and
\* the second on a reverse key.
ForwardThenReverse ==
    LET w == Writes(log[Main])
    IN  /\ Len(w) <= 2
        /\ Len(w) >= 1 => ~IsReverseKey(w[1].key)
        /\ Len(w) = 2 => (IsReverseKey(w[2].key) /\ w[1].op = w[2].op)

\* C17 (as stated; refuted): every request that touches both entries of a
\* pair operates on the forward entry first and on the reverse entry second,
\* and a request stopped between the two operations, on a store that was
\* consistent when it arrived, never leaves a reverse entry whose forward
\* entry is missing.
C17_AsStated ==
    /\ ForwardThenReverse
    /\ ((BetweenPuts \/ BetweenDeletes) /\ Consistent(snap[Main]))
         => ReverseOnly(kv) = {}

\* C17 (amended): every request that touches both entries of a pair operates
\* on the forward entry first and on the reverse entry second.  On a store
\* that was consistent when the request arrived, a link or POST /link stopped
\* between its puts has written the forward entry and leaves no reverse entry
\* without its forward entry; an unlink or DELETE /link stopped between its
\* deletes leaves exactly the reverse entry of the pair without its forward
\* entry, and no forward entry without its reverse entry.
C17_ForwardFirst ==
    /\ ForwardThenReverse
    /\ (BetweenPuts /\ Consistent(snap[Main]))
         => /\ loc[Main].email \in DOMAIN kv
            /\ kv[loc[Main].email] = StoredId(loc[Main].userId)
            /\ ReverseOnly(kv) = {}
            /\ ForwardOnly(kv) \subseteq {loc[Main].email}
    /\ (BetweenDeletes /\ Consistent(snap[Main]))
         => /\ ForwardOnly(kv) = {}
            /\ ReverseOnly(kv) = {ReverseKeyOf(loc[Main].userId)}
            /\ kv[ReverseKeyOf(loc[Main].userId)] = loc[Main].email

\* An /unlink on a consistent store of two pairs stands between its deletes:
\* the account's reverse entry is there, its forward entry is gone.
C17_Witness ==
    /\ pc[Main] = "unlink_delete_reverse"
    /\ Consistent(snap[Main])
    /\ Cardinality(DOMAIN snap[Main]) = 4
    /\ ReverseOnly(kv) = {RequesterKey}
    /\ RequesterEmail \notin DOMAIN kv

\* --------------------------------------------------------------- C18

\* When the /link in slot Main arrived, its email had a forward entry for
\* another account, and that account had no reverse entry.
ForwardOnlyElsewhere ==
    /\ LinkEmailArg \in DOMAIN snap[Main]
    /\ snap[Main][LinkEmailArg] /= req[Main].userId
    /\ ReverseKeyOf(snap[Main][LinkEmailArg]) \notin DOMAIN snap[Main]

\* When the /link in slot Main arrived, its account had a reverse entry for
\* another email, and that email had no forward entry.
ReverseOnlyOtherEmail ==
    /\ RequesterKey \in DOMAIN snap[Main]
    /\ RequesterEmail /= LinkEmailArg
    /\ RequesterEmail \notin DOMAIN snap[Main]

\* The /link in slot Main has written nothing and the store is as it found it.
NothingWritten == Writes(log[Main]) = <<>> /\ kv = snap[Main]

\* C18 (as stated; refuted): /link e by u' while forward(e) = u with u /= u'
\* and reverse(u) absent ends as already-linked-elsewhere; /link e' by u
\* while reverse(u) = e with e /= e' and forward(e) absent ends as
\* account-already-linked; neither writes to the store.
C18_AsStated ==
    /\ (LinkCommand /\ ForwardOnlyElsewhere)
         => /\ NothingWritten
            /\ pc[Main] = "done" => resp[Main].kind = "already_linked_elsewhere"
    /\ (LinkCommand /\ ReverseOnlyOtherEmail)
         => /\ NothingWritten
            /\ pc[Main] = "done" => resp[Main].kind = "account_already_linked"

\* C18 (amended): as stated, except that a /link e' by u whose account has a
\* reverse-only entry for another email ends as account-already-linked only
\* when e' itself has no forward entry for another account; when it has one,
\* the forward check comes first and the command ends as
\* already-linked-elsewhere.  No rejection writes to the store, and none asks
\* Ghost.
C18_OneSidedIsPresent ==
    /\ (LinkCommand /\ ForwardOnlyElsewhere)
         => /\ NothingWritten
            /\ Lookups(log[Main]) = <<>>
            /\ pc[Main] = "done" => resp[Main].kind = "already_linked_elsewhere"
    /\ (LinkCommand /\ ReverseOnlyOtherEmail)
         => /\ NothingWritten
            /\ Lookups(log[Main]) = <<>>
            /\ pc[Main] = "done" =>
                 resp[Main].kind =
                    IF /\ LinkEmailArg \in DOMAIN snap[Main]
                       /\ snap[Main][LinkEmailArg] /= req[Main].userId
                    THEN "already_linked_elsewhere"
                    ELSE "account_already_linked"

\* An account with a reverse-only entry asked for another email, which nobody
\* holds, and was turned down by the reverse check.
C18_Witness ==
    /\ LinkCommand
    /\ ReverseOnlyOtherEmail
    /\ LinkEmailArg \notin DOMAIN snap[Main]
    /\ pc[Main] = "done"
    /\ resp[Main].kind = "account_already_linked"

\* --------------------------------------------------------------- C19

\* The /link in slot Main is for an email held forward-only by another
\* account, sent by an account that had no reverse entry.
LinkOverForwardOnly ==
    /\ LinkCommand
    /\ ForwardOnlyElsewhere
    /\ RequesterKey \notin DOMAIN snap[Main]

\* C19 (as stated; refuted): /link e by u' while forward(e) = u with u /= u',
\* reverse(u) missing and reverse(u') missing is not turned down by a
\* conflict check: it goes on to ask Ghost.
C19_AsStated ==
    (LinkOverForwardOnly /\ pc[Main] = "done")
    => /\ resp[Main].kind \notin {"already_linked_elsewhere", "account_already_linked"}
       /\ Lookups(log[Main]) /= <<>>

\* C19 (amended): a forward-only pair counts as a mapping that is present:
\* /link e by u' while forward(e) = u with u /= u', reverse(u) missing and
\* reverse(u') missing stops at the forward check.  It reads the forward
\* entry and nothing else, never asks Ghost, writes nothing, and ends as
\* already-linked-elsewhere.
C19_ForwardOnlyIsPresent ==
    LinkOverForwardOnly
    => /\ pc[Main] \in {"handleDiscordInteraction", "link_forward", "done"}
       /\ Lookups(log[Main]) = <<>>
       /\ RoleCalls(log[Main]) = <<>>
       /\ NothingWritten
       /\ pc[Main] = "done" =>
            /\ resp[Main] = [status |-> 200, kind |-> "already_linked_elsewhere"]
            /\ Len(StoreOps(log[Main])) = 1
            /\ StoreOps(log[Main])[1].op = "get"
            /\ StoreOps(log[Main])[1].key = LinkEmailArg

\* Such a /link was turned down after the one read of the forward entry.
C19_Witness ==
    /\ LinkOverForwardOnly
    /\ pc[Main] = "done"
    /\ Len(log[Main]) = 1
    /\ log[Main][1].val = snap[Main][LinkEmailArg]
    /\ resp[Main].kind = "already_linked_elsewhere"

\* --------------------------------------------------------------- C20

\* Slot p holds a /link that passed both conflict checks and the lookup and
\* has made both its puts.
HasLinked(p) ==
    /\ req[p].kind = "discord"
    /\ req[p].name = "link"
    /\ Len(Writes(log[p])) = 2

\* Slots p and q hold /link commands for the same email from different
\* accounts, and both have made both their puts.
BothLinked(p, q) ==
    /\ p /= q
    /\ HasLinked(p)
    /\ HasLinked(q)
    /\ loc[p].email = loc[q].email
    /\ req[p].userId /= req[q].userId

\* Every role call of slot p was answered 2xx.
GrantsSucceeded(p) ==
    \A i \in 1..Len(RoleCalls(log[p])) : RoleCalls(log[p])[i].out = "ok"

\* When two /link commands for one email from two accounts have both written,
\* each account's reverse entry holds the email, the email's forward entry
\* holds some account, and each command whose grants succeeded reports
\* success.
RaceOutcome ==
    \A p, q \in Procs :
        BothLinked(p, q)
        => /\ ReverseKeyOf(req[p].userId) \in DOMAIN kv
           /\ kv[ReverseKeyOf(req[p].userId)] = loc[p].email
           /\ loc[p].email \in DOMAIN kv
           /\ kv[loc[p].email] \in UserIds
           /\ (pc[p] = "done" /\ GrantsSucceeded(p)) =>
                resp[p] = [status |-> 200, kind |-> "linked"]

\* A step in which slot p makes its forward put.
ForwardPutBy(p) == pc[p] = "link_put_forward" /\ pc'[p] = "link_put_reverse"

\* A forward put leaves the forward entry with the account that made it, and
\* nothing but a forward put changes a forward entry.
LastForwardPutWins ==
    /\ \A p \in Procs :
          ForwardPutBy(p) => (loc[p].email \in DOMAIN kv' /\ kv'[loc[p].email] = req[p].userId)
    /\ \A e \in Emails :
          (e \in DOMAIN kv /\ (e \notin DOMAIN kv' \/ kv'[e] /= kv[e]))
          => \E p \in Procs : ForwardPutBy(p) /\ loc[p].email = e

\* C20: when /link commands for the same email from different accounts
\* interleave at their store operations, both can pass both conflict checks
\* and both write (the witness); whenever both have written, both reverse
\* entries hold the email, the forward entry holds the account whose forward
\* put came last, and each command reports success.
C20_LaterWriteWins == [](RaceOutcome) /\ [][LastForwardPutWins]_vars

\* Two /link a@x from two accounts both read forward(a@x) as absent, both
\* wrote, and both were answered with the success reply; the forward entry
\* holds one of the two accounts, both reverse entries hold a@x.
C20_Witness ==
    \E p, q \in Procs :
        /\ BothLinked(p, q)
        /\ pc[p] = "done"
        /\ pc[q] = "done"
        /\ log[p][1] = Entry("get", EmailA, Null, "ok")
        /\ log[q][1] = Entry("get", EmailA, Null, "ok")
        /\ resp[p].kind = "linked"
        /\ resp[q].kind = "linked"
        /\ kv[EmailA] = req[q].userId
        /\ kv[ReverseKeyOf(req[p].userId)] = EmailA
        /\ kv[ReverseKeyOf(req[q].userId)] = EmailA

\* --------------------------------------------------------------- C21

\* The store a race on email e leaves: forward(e) holds the winner, and the
\* reverse entries of winner and loser both hold e.
AfterRace(store, e, winner, loser) ==
    /\ winner /= loser
    /\ e \in DOMAIN store
    /\ store[e] = winner
    /\ ReverseKeyOf(winner) \in DOMAIN store
    /\ store[ReverseKeyOf(winner)] = e
    /\ ReverseKeyOf(loser) \in DOMAIN store
    /\ store[ReverseKeyOf(loser)] = e

\* Slot p is the one whose calls run alone, and holds a /link for a valid
\* email by an account that was the loser of a race when the command arrived.
LoserRetry(p) ==
    /\ p = Alone
    /\ pc[p] /= "idle"
    /\ req[p].kind = "discord"
    /\ req[p].name = "link"
    /\ req[p].option \in RawEmails
    /\ \E e \in Emails, w \in UserIds : AfterRace(snap[p], e, w, req[p].userId)

\* The email the store held for the account of slot p when its command arrived.
LostEmail(p) == snap[p][ReverseKeyOf(req[p].userId)]

\* C21 (as stated; refuted): the loser's next /link after a race, run alone,
\* is turned down by the reverse check (account already linked) and writes
\* nothing.
C21_AsStated ==
    \A p \in Procs :
        LoserRetry(p)
        => /\ Writes(log[p]) = <<>>
           /\ pc[p] = "done" => resp[p].kind = "account_already_linked"

\* C21 (amended): the loser's next /link after a race on e, run alone, writes
\* nothing, asks Ghost nothing and leaves the store as it was.  For e itself
\* it is turned down by the forward check (already linked elsewhere), since
\* forward(e) holds the winner; for another email it is turned down by the
\* reverse check (account already linked), unless that email is held by
\* another account, which the forward check reports first.
C21_LoserIsTurnedDown ==
    \A p \in Procs :
        LoserRetry(p)
        => LET e == ToLowerCase(req[p].option)
           IN  /\ Writes(log[p]) = <<>>
               /\ Lookups(log[p]) = <<>>
               /\ kv = snap[p]
               /\ pc[p] = "done" =>
                    resp[p].kind =
                        IF e = LostEmail(p) THEN "already_linked_elsewhere"
                        ELSE IF e \in DOMAIN snap[p] /\ snap[p][e] /= req[p].userId
                        THEN "already_linked_elsewhere"
                        ELSE "account_already_linked"

\* After a race on a@x the loser asked for a@x again, alone, and was turned
\* down by the forward check.
C21_Witness ==
    \E p \in Procs :
        /\ LoserRetry(p)
        /\ req[p].option = EmailA
        /\ LostEmail(p) = EmailA
        /\ pc[p] = "done"
        /\ Len(log[p]) = 1
        /\ resp[p].kind = "already_linked_elsewhere"

\* --------------------------------------------------------------- C22

\* An authenticated DELETE /link with a parsable body and an email has been
\* answered.
LinkDeleteCompleted ==
    /\ pc[Main] = "done"
    /\ req[Main].kind = "admin_delete"
    /\ req[Main].auth = Bearer \o ADMIN_SECRET
    /\ req[Main].jsonOk
    /\ req[Main].email \in RawEmails

\* C22 (as stated; refuted): once an authenticated DELETE /link for email e
\* has been answered, e has no forward entry and no reverse entry holds e.
C22_AsStated ==
    LinkDeleteCompleted
    => LET e == ToLowerCase(req[Main].email)
       IN  /\ resp[Main] = [status |-> 200, kind |-> "ok"]
           /\ e \notin DOMAIN kv
           /\ \A rk \in ReverseKeys(kv) : kv[rk] /= e

\* --------------------------------------------------------------- C23

\* A /link command is being handled, whatever its email argument.
AnyLinkCommand ==
    /\ pc[Main] /= "idle"
    /\ req[Main].kind = "discord"
    /\ req[Main].signatureOk
    /\ req[Main].type = 2
    /\ req[Main].name = "link"

\* The operations of the log of slot Main, in order.
Steps == [i \in 1..Len(log[Main]) |-> log[Main][i].op]

\* s is an initial part of t.
IsPrefix(s, t) == Len(s) <= Len(t) /\ \A i \in 1..Len(s) : s[i] = t[i]

\* The email argument had a forward entry for another account, respectively
\* the account a reverse entry for another email, when the command arrived.
ForwardTaken ==
    /\ LinkEmailArg \in DOMAIN snap[Main]
    /\ snap[Main][LinkEmailArg] /= req[Main].userId
ReverseTaken ==
    /\ RequesterKey \in DOMAIN snap[Main]
    /\ snap[Main][RequesterKey] /= LinkEmailArg

\* C23: a /link whose email argument is missing, empty or not an email address
\* is answered before any store read, with no write, no Ghost lookup and no
\* role call.  A /link with a valid email proceeds in the order forward read,
\* reverse read, Ghost lookup, puts, role calls, and stops at the first check
\* that fails: on a forward conflict the reverse entry is not read, so when
\* both conflicts hold the reply is already-linked-elsewhere; on a reverse
\* conflict Ghost is not asked.
C23_ShortCircuitOrder ==
    /\ (AnyLinkCommand /\ req[Main].option \notin RawEmails)
         => /\ log[Main] = <<>>
            /\ kv = snap[Main]
            /\ pc[Main] = "done" =>
                 resp[Main] = [status |-> 200,
                               kind |-> IF req[Main].option \in {Undefined, <<>>}
                                        THEN "provide_email" ELSE "invalid_email"]
    /\ LinkCommand
         => /\ IsPrefix(Steps, <<"get", "get", "getGhostMember", "put", "put",
                                 "addRole", "addRole">>)
            /\ Len(log[Main]) >= 1 => log[Main][1].key = LinkEmailArg
            /\ Len(log[Main]) >= 2 => log[Main][2].key = RequesterKey
            /\ ForwardTaken
                 => /\ Len(log[Main]) <= 1
                    /\ pc[Main] = "done" => resp[Main].kind = "already_linked_elsewhere"
            /\ (~ForwardTaken /\ ReverseTaken)
                 => /\ Len(log[Main]) <= 2
                    /\ pc[Main] = "done" => resp[Main].kind = "account_already_linked"

\* A /link with an argument that is not an email address was answered with
\* the invalid-email reply while the store held mappings.
C23_Witness ==
    /\ AnyLinkCommand
    /\ req[Main].option = InvalidEmail
    /\ pc[Main] = "done"
    /\ resp[Main].kind = "invalid_email"
    /\ log[Main] = <<>>
    /\ DOMAIN kv /= {}

\* --------------------------------------------------------------- C24

\* An application command (link or unlink) whose interaction carries no
\* requester id is being handled.
CommandWithoutRequester ==
    /\ pc[Main] /= "idle"
    /\ req[Main].kind = "discord"
    /\ req[Main].signatureOk
    /\ req[Main].type = 2
    /\ req[Main].name \in {"link", "unlink"}
    /\ req[Main].userId = Undefined

\* C24 (as stated; refuted): a link or unlink command whose interaction
\* carries no requester id never reaches the command handlers: it reads,
\* writes and deletes nothing in the store and calls no role.
C24_AsStated ==
    CommandWithoutRequester
    => /\ pc[Main] \in {"handleDiscordInteraction", "done"}
       /\ StoreOps(log[Main]) = <<>>
       /\ RoleCalls(log[Main]) = <<>>
       /\ kv = snap[Main]

\* --------------------------------------------------------------- C25

\* No two role calls of the request have the same operation and role.
NoCallRepeated(l) ==
    \A i, j \in 1..Len(RoleCalls(l)) :
        i /= j => <<RoleCalls(l)[i].op, RoleCalls(l)[i].val>>
                    /= <<RoleCalls(l)[j].op, RoleCalls(l)[j].val>>

\* C25: no request retries a collaborator call: within one request each role
\* mutation (operation, role) is attempted at most once, at most two role
\* calls and at most one directory lookup are issued, and the request ends
\* with exactly one response: none while it is handled, one when it is over
\* (the runtime's error response when the handler threw).
C25_SingleAttempt ==
    /\ NoCallRepeated(log[Main])
    /\ Len(RoleCalls(log[Main])) <= 2
    /\ Len(Lookups(log[Main])) <= 1
    /\ (pc[Main] = "done") <=> (resp[Main] /= NoResponse)

\* A link has ended after one lookup and two role calls, the first of which
\* failed and was not attempted again.
C25_Witness ==
    /\ pc[Main] = "done"
    /\ Len(Lookups(log[Main])) = 1
    /\ Len(RoleCalls(log[Main])) = 2
    /\ RoleCalls(log[Main])[1].out = "http_error"

\* --------------------------------------------------------------- C26

\* A membership event (added/updated or deleted) is being handled or is over.
MembershipEvent ==
    /\ pc[Main] /= "idle"
    /\ req[Main].kind \in {"webhook", "webhook_deleted"}

\* The event's handler has read the store and nothing else.
OnlyReads(l) == \A i \in 1..Len(StoreOps(l)) : StoreOps(l)[i].op = "get"

\* C26: the membership-event handlers never write or delete a store entry:
\* the store is the same before, during and after every event, so after a
\* deletion event the forward and the reverse entry of the pair the event
\* resolved are both still present.
C26_EventsLeaveTheStore ==
    MembershipEvent
    => /\ kv = snap[Main]
       /\ OnlyReads(log[Main])
       /\ (req[Main].kind = "webhook_deleted" /\ pc[Main] = "done"
            /\ loc[Main].userId \in UserIds
            /\ KvGet(snap[Main], DiscordKey(loc[Main].userId)) = loc[Main].email)
          => /\ KvGet(kv, loc[Main].email) = loc[Main].userId
             /\ KvGet(kv, DiscordKey(loc[Main].userId)) = loc[Main].email

\* A deletion event for a linked pair is over: both roles were removed and
\* both entries of the pair are in the store.
C26_Witness ==
    /\ req[Main].kind = "webhook_deleted"
    /\ pc[Main] = "done"
    /\ resp[Main].kind = "ok"
    /\ Len(RoleCalls(log[Main])) = 2
    /\ loc[Main].userId \in UserIds
    /\ KvGet(kv, loc[Main].email) = loc[Main].userId
    /\ KvGet(kv, DiscordKey(loc[Main].userId)) = loc[Main].email

\* --------------------------------------------------------------- C27

\* C27 (as stated; refuted): a successful /unlink by account u removes a
\* forward entry only if that entry resolved to u when the command arrived;
\* it never deletes a forward entry whose value is another account.
C27_AsStated ==
    (UnlinkCommand /\ req[Main].userId \in UserIds
        /\ pc[Main] = "done" /\ resp[Main].kind = "unlinked")
    => \A e \in ForwardKeys(snap[Main]) \ ForwardKeys(kv) :
            snap[Main][e] = req[Main].userId

\* --------------------------------------------------------------- C28

\* A /link of email e by account u that arrived when the store held
\* forward(e) = u and reverse(u) = e.
LinkOfLinkedPair ==
    /\ LinkCommand
    /\ req[Main].userId \in UserIds
    /\ LinkEmailArg \in DOMAIN snap[Main]
    /\ snap[Main][LinkEmailArg] = req[Main].userId
    /\ DiscordKey(req[Main].userId) \in DOMAIN snap[Main]
    /\ snap[Main][DiscordKey(req[Main].userId)] = LinkEmailArg

\* C28 (as stated; refuted): a /link of a pair that is already linked passes
\* both conflict checks, so that it ends only after the directory lookup, and
\* when the directory finds the email it reports the link as made (the
\* linked reply, or the linked-but-roles-not-assigned one) and leaves the
\* store exactly as it was.
C28_AsStated ==
    (LinkOfLinkedPair /\ pc[Main] = "done")
    => /\ Len(Lookups(log[Main])) = 1
       /\ LookupOutcome = "member"
            => /\ resp[Main].kind \in {"linked", "linked_roles_failed"}
               /\ kv = snap[Main]

\* --------------------------------------------------------------- C29

\* The step taken is a role grant of the event handler.
EventGrant ==
    /\ pc[EventSlot] = "webhook"
    /\ Len(log'[EventSlot]) = Len(log[EventSlot]) + 1
    /\ log'[EventSlot][Len(log'[EventSlot])].op = "addRole"

\* The account the grant made in this step is for.
GrantTarget == log'[EventSlot][Len(log'[EventSlot])].key

\* The step taken is the event handler's read of the mapping, and it found one.
EventRead ==
    /\ pc[EventSlot] = "parseWebhookRequest"
    /\ pc'[EventSlot] = "webhook"

\* The other invocation handles an /unlink or an administrative delete that
\* found the event's email mapped to the account the event handler read.
RemovalNextToEvent ==
    /\ pc[ChangeSlot] /= "idle"
    /\ req[ChangeSlot].kind \in {"discord", "admin_delete"}
    /\ loc[EventSlot].email \in DOMAIN snap[ChangeSlot]
    /\ snap[ChangeSlot][loc[EventSlot].email] = loc[EventSlot].userId

\* C29 (as stated; refuted): while a membership event for email e is handled
\* next to an /unlink or an administrative delete of e's mapping, every role
\* grant of the event handler is for the account the entry of e resolves to
\* at the moment of the grant; no role is granted to an account whose mapping
\* has been removed.
C29_AsStated ==
    [][(EventGrant /\ RemovalNextToEvent)
       => /\ loc[EventSlot].email \in DOMAIN kv
          /\ kv[loc[EventSlot].email] = GrantTarget]_vars

\* C29 (amended): the event handler reads the entry of e once; it goes on only
\* if the store holds an entry for e at that moment, and every role grant it
\* makes afterwards is for the account that entry named when it was read,
\* whatever has happened to the mapping since.
C29_GrantsFollowTheRead ==
    [][/\ EventRead
          => /\ WebhookEmail(req[EventSlot]) \in DOMAIN kv
             /\ loc'[EventSlot].userId = kv[WebhookEmail(req[EventSlot])]
             /\ loc'[EventSlot].userId \in UserIds
       /\ EventGrant => GrantTarget = loc[EventSlot].userId]_vars

\* The event handler stands between its two grants, the first made, and the
\* mapping of its email has been removed by the other invocation: the grant
\* it makes next is for an account that is no longer mapped.
C29_Witness ==
    /\ pc[EventSlot] = "webhook"
    /\ Len(RoleCalls(log[EventSlot])) = 1
    /\ loc[EventSlot].email \notin DOMAIN kv
    /\ \E i \in 1..Len(log[ChangeSlot]) :
          /\ log[ChangeSlot][i].op = "delete"
          /\ log[ChangeSlot][i].key = loc[EventSlot].email

=============================================================================
